---- MODULE Spec2Model ----
(***************************************************************************)
(* Model of the enrichment-and-validation pipeline.                        *)
(*                                                                         *)
(*   Spec        validate_enrichment.py: main() as a two-phase run over    *)
(*               the rows of the input table (heuristic_check on every     *)
(*               row, then verify_with_exa on every suspect row, then the  *)
(*               output table is written).                                 *)
(*   SpecEnrich  enrich_linkedin.py: main() as a run over contiguous       *)
(*               batches (enrich_batch, match_results, output written).    *)
(*   SpecSingle  enrich_superhuman.py: main() as a run of one lookup       *)
(*               (find_phone) per named row.                               *)
(*   SpecClean   clean_csv.py: main() as a run of the field cleaners over  *)
(*               the rows, with the summary counters.                      *)
(*   SpecPipeline  enrich_phones.py: main(), then validate_enrichment.py   *)
(*               phase 1 on the table it wrote.                            *)
(*   SpecFollowers  scrape_and_enrich_ig.py: main() from the return of     *)
(*               scrape_followers (save, credential check, enrichment).    *)
(*                                                                         *)
(* Strings the code inspects character by character (phone numbers,        *)
(* source attributions, names) are sequences of one-character strings.     *)
(***************************************************************************)
EXTENDS Integers, Sequences, FiniteSets, TLC

\* ------------------------------------------------------------------------
\* Bounds
\* ------------------------------------------------------------------------
MaxRows == 2

\* ------------------------------------------------------------------------
\* Characters and the string primitives of the code (str.strip, str.lower,
\* re.search, re.sub)
\* ------------------------------------------------------------------------
DigitChars == {"0", "1", "2", "3", "4", "5", "6", "7", "8", "9"}

Whitespace == {" "}

MaskChars == {"X", "x", "*", "."}

\* str.lower() on one character
LowerChar(c) ==
    CASE c = "A" -> "a"
      [] c = "B" -> "b"
      [] c = "C" -> "c"
      [] c = "D" -> "d"
      [] c = "E" -> "e"
      [] c = "F" -> "f"
      [] c = "G" -> "g"
      [] c = "H" -> "h"
      [] c = "I" -> "i"
      [] c = "J" -> "j"
      [] c = "K" -> "k"
      [] c = "L" -> "l"
      [] c = "M" -> "m"
      [] c = "N" -> "n"
      [] c = "O" -> "o"
      [] c = "P" -> "p"
      [] c = "Q" -> "q"
      [] c = "R" -> "r"
      [] c = "S" -> "s"
      [] c = "T" -> "t"
      [] c = "U" -> "u"
      [] c = "V" -> "v"
      [] c = "W" -> "w"
      [] c = "X" -> "x"
      [] c = "Y" -> "y"
      [] c = "Z" -> "z"
      [] OTHER -> c

lower(s) == [k \in 1..Len(s) |-> LowerChar(s[k])]

RECURSIVE lstrip(_)
lstrip(s) == IF s # << >> /\ Head(s) \in Whitespace THEN lstrip(Tail(s)) ELSE s

RECURSIVE rstrip(_)
rstrip(s) ==
    IF s # << >> /\ s[Len(s)] \in Whitespace
    THEN rstrip(SubSeq(s, 1, Len(s) - 1))
    ELSE s

strip(s) == rstrip(lstrip(s))

\* re.match of a pattern given as a sequence of character classes, at
\* position p of s
MatchAt(pat, s, p) ==
    /\ p + Len(pat) - 1 <= Len(s)
    /\ \A k \in 1..Len(pat) : s[p + k - 1] \in pat[k]

\* re.search(pat, s) for such a pattern
Search(pat, s) == \E p \in 1..Len(s) : MatchAt(pat, s, p)

\* re.search(pat + "$", s): the pattern matches and ends at the end of s
SearchAtEnd(pat, s) ==
    /\ Len(pat) <= Len(s)
    /\ MatchAt(pat, s, Len(s) - Len(pat) + 1)

\* a literal as a pattern
Lit(s) == [k \in 1..Len(s) |-> {s[k]}]

\* re.search(literal, s, re.IGNORECASE), the literal written in lower case
SearchIgnoreCase(lit, s) == Search(Lit(lit), lower(s))

IsKeptByCleaned(c) == c \in DigitChars \cup {"X", "*", "x"}

IsDigit(c) == c \in DigitChars

\* cleaned = re.sub(r"[^\dX*x]", "", phone)
cleaned(phone) == SelectSeq(phone, IsKeptByCleaned)

\* digits = re.sub(r"\D", "", cleaned)
digits(phone) == SelectSeq(cleaned(phone), IsDigit)

\* re.search(r"[Xx*\.]{3,}", phone)
HasMaskRun(phone) == Search(<<MaskChars, MaskChars, MaskChars>>, phone)

\* re.search(r"555-?\d{4}", phone)
Has555(phone) ==
    \/ Search(<<{"5"}, {"5"}, {"5"}, DigitChars, DigitChars, DigitChars, DigitChars>>, phone)
    \/ Search(<<{"5"}, {"5"}, {"5"}, {"-"}, DigitChars, DigitChars, DigitChars, DigitChars>>, phone)

\* re.search(r"123-?4567", phone)
Has1234567(phone) ==
    \/ Search(Lit(<<"1", "2", "3", "4", "5", "6", "7">>), phone)
    \/ Search(Lit(<<"1", "2", "3", "-", "4", "5", "6", "7">>), phone)

\* re.search(r"000-?0000", phone)
HasZeros(phone) ==
    \/ Search(Lit(<<"0", "0", "0", "0", "0", "0", "0">>), phone)
    \/ Search(Lit(<<"0", "0", "0", "-", "0", "0", "0", "0">>), phone)

\* company_page_patterns, each searched with re.IGNORECASE
IsCompanyPage(source) ==
    \/ SearchIgnoreCase(<<"k", "r", "o", "g", "e", "r", ".", "c", "o", "m">>, source)
    \/ SearchIgnoreCase(<<"f", "i", "u", ".", "e", "d", "u">>, source)
    \/ SearchIgnoreCase(<<"r", "i", "t", ".", "e", "d", "u">>, source)
    \/ SearchIgnoreCase(<<"u", "t", "d", "a", "l", "l", "a", "s", ".", "e", "d", "u">>, source)
    \/ SearchIgnoreCase(<<"f", "r", "e", "m", "o", "n", "t", ".", "g", "o", "v">>, source)
    \/ SearchIgnoreCase(<<"u", "m", "i", "c", "h", ".", "e", "d", "u">>, source)
    \/ SearchIgnoreCase(<<"s", "t", "a", "n", "f", "o", "r", "d", ".", "e", "d", "u">>, source)
    \/ SearchIgnoreCase(<<"/", "c", "o", "n", "t", "a", "c", "t", "-", "u", "s">>, source)
    \/ SearchAtEnd(Lit(<<"/", "c", "o", "n", "t", "a", "c", "t">>), lower(source))
    \/ SearchIgnoreCase(<<"/", "f", "a", "q", "s">>, source)

\* heuristic_check with the 555 rule tested before the masking rule
heuristic_check_555First(phone, source) ==
    IF strip(phone) = << >> THEN "empty"
    ELSE IF Has555(phone) THEN "fake"
    ELSE IF HasMaskRun(phone) THEN "partial"
    ELSE IF Len(digits(phone)) < 7 THEN "invalid"
    ELSE IF Len(digits(phone)) > 15 THEN "invalid"
    ELSE IF Has1234567(phone) THEN "fake"
    ELSE IF HasZeros(phone) THEN "fake"
    ELSE IF IsCompanyPage(source) THEN "suspect"
    ELSE "ok"

\* heuristic_check(phone, name, source): the status it returns
heuristic_check(phone, source) ==
    IF strip(phone) = << >> THEN "empty"
    ELSE IF HasMaskRun(phone) THEN "partial"
    ELSE IF Has555(phone) THEN "fake"
    ELSE IF Len(digits(phone)) < 7 THEN "invalid"
    ELSE IF Len(digits(phone)) > 15 THEN "invalid"
    ELSE IF Has1234567(phone) THEN "fake"
    ELSE IF HasZeros(phone) THEN "fake"
    ELSE IF IsCompanyPage(source) THEN "suspect"
    ELSE "ok"

\* ------------------------------------------------------------------------
\* Inputs of a validation run
\* ------------------------------------------------------------------------
NoString == << >>

Phone305 == <<" ", "3", "0", "5", "-", "3", "4", "8", "-", "2", "0", "0", "0">>

Phone123 == <<"1", "2", "3", "-", "4", "5", "6", "-", "7", "8", "9", "0">>

\* phones that pass every format rule of heuristic_check
WellFormedPhones == {Phone305, Phone123}

\* phones that are blank or stopped by a format rule
OtherPhones ==
    { <<" ">>,
      <<"1", "2", "3", "-", "4", "5", "6", "7">>,
      <<"5", "5", "5", "-", "0", "1", "2", "3">>,
      <<"X", "X", "X", "-", "5", "5", "5", "-", "0", "1", "2", "3">>,
      <<"1", "2", "3", "4", "5">>,
      <<"2", "0", "0", "0", "-", "0", "0", "0", "0">>,
      <<"1", "2", "3", "4", "5", "6", "7", "8", "9", "0", "1", "2", "3", "4", "5", "6">> }

SourceFiu == <<"a", "@", "F", "I", "U", ".", "e", "d", "u">>

SourcePool ==
    { NoString,
      SourceFiu,
      <<"a", ".", "c", "o", "/", "c", "o", "n", "t", "a", "c", "t">>,
      <<"a", ".", "c", "o", "/", "c", "o", "n", "t", "a", "c", "t", "s">> }

CorrectedPhone == <<"+", "1", "3", "0", "5", "5", "5", "5", "1", "2", "3", "4", "-", "r", "e", "a", "l">>

\* a row of the input table as csv.DictReader yields it; the validation
\* columns are absent in the input and read as empty
InputRow(p, s) ==
    [phone_number |-> p, phone_source |-> s, phone_status |-> "", verified_phone |-> NoString]

\* a row of a table that was validated before: its verified_phone column
\* holds a number
StaleRow == [InputRow(Phone305, SourceFiu) EXCEPT !.verified_phone = CorrectedPhone]

\* the well-formed phones with every source, the others with an
\* institutional source, and a row without phone and source
InputRows ==
    { InputRow(p, s) : p \in WellFormedPhones, s \in SourcePool }
    \cup { InputRow(p, SourceFiu) : p \in OtherPhones }
    \cup { InputRow(NoString, NoString), StaleRow }

\* What the answer service can do on one verification call: the transport
\* fails (urlopen raises or times out, or the body is not JSON), or the body
\* decodes to a JSON value whose "answer" member is absent, null, a list, an
\* object or a string (which json.loads decodes to an object, to a list, or
\* fails to decode).
VerifyDefaults ==
    [transport |-> "ok", body |-> "dict", answer |-> "absent", decoded |-> "none",
     is_valid |-> "absent", corrected_phone |-> NoString]

VerifyResponses ==
    { [VerifyDefaults EXCEPT !.transport = "error"],
      [VerifyDefaults EXCEPT !.body = "list"],
      VerifyDefaults,
      [VerifyDefaults EXCEPT !.answer = "null"],
      [VerifyDefaults EXCEPT !.answer = "list"],
      [VerifyDefaults EXCEPT !.answer = "str", !.decoded = "bad"],
      [VerifyDefaults EXCEPT !.answer = "str", !.decoded = "list"] }
    \cup { [VerifyDefaults EXCEPT !.answer = "str", !.decoded = "dict",
                                  !.is_valid = v, !.corrected_phone = CorrectedPhone] :
             v \in {"true", "false"} }
    \cup { [VerifyDefaults EXCEPT !.answer = "dict", !.is_valid = v, !.corrected_phone = c] :
             v \in {"true", "false"}, c \in {NoString, CorrectedPhone} }
    \cup { [VerifyDefaults EXCEPT !.answer = "dict", !.is_valid = v] :
             v \in {"null", "absent", "string"} }

NoResult == [raised |-> FALSE, is_valid |-> "None", corrected_phone |-> NoString]

\* answer.get("is_valid") as main() tests it: "is True", "is False", neither
GetIsValid(resp) ==
    CASE resp.is_valid = "true" -> "True"
      [] resp.is_valid = "false" -> "False"
      [] resp.is_valid \in {"null", "absent"} -> "None"
      [] OTHER -> "other"

\* verify_with_exa(name, phone, bio, location, email): the dict it returns,
\* or raised = TRUE when an exception leaves the function
verify_with_exa(resp) ==
    IF resp.transport = "error" THEN NoResult
    ELSE IF resp.body # "dict" THEN [NoResult EXCEPT !.raised = TRUE]
    ELSE IF resp.answer = "absent" THEN NoResult
    ELSE IF resp.answer = "str" /\ resp.decoded = "bad" THEN NoResult
    ELSE IF \/ resp.answer = "dict"
            \/ resp.answer = "str" /\ resp.decoded = "dict"
         THEN [raised |-> FALSE, is_valid |-> GetIsValid(resp),
               corrected_phone |-> resp.corrected_phone]
    ELSE [NoResult EXCEPT !.raised = TRUE]

\* ------------------------------------------------------------------------
\* validate_enrichment.py: main()
\* ------------------------------------------------------------------------
VARIABLES
    rows,          \* the table, a sequence of rows, mutated in place
    rows_in,       \* the table as read from the input
    pc,            \* "phase1", "phase2", "write", "done", "aborted"
    i,             \* rows handled by the phase 1 loop
    status,        \* heuristic status of the row phase 1 handled last
    stats,         \* the counters of main()
    suspect_rows,  \* indices of the rows queued for verification
    j,             \* suspect rows handled by the phase 2 loop
    response,      \* what the answer service did on the last call
    result,        \* the result of the last verify_with_exa call
    calls,         \* indices of the rows the answer service was called for
    output,        \* the rows written to OUTPUT_CSV
    start,         \* enrich_linkedin.py: rows before the next batch
    results,       \* enrich_linkedin.py: what enrich_batch returned last
    answers,       \* enrich_linkedin.py: what enrich_batch returned, per call
    env            \* the credential and the arguments the process was started with

vars == <<rows, rows_in, pc, i, status, stats, suspect_rows, j, response, result, calls,
          output, start, results, answers, env>>

\* the variables only the batch enrichment run uses
enrichVars == <<start, results, answers>>

\* the variables only the validation run uses
validateVars == <<i, status, stats, suspect_rows, j, result>>

\* the environment of a run that got past the module-level credential check
\* (EXA_API_KEY set) and was started without --skip-enrich
RunningEnv == [EXA_API_KEY |-> TRUE, skip_enrich |-> FALSE]

StatKeys == {"empty", "ok", "fake", "partial", "invalid", "suspect", "verified", "rejected"}

Init ==
    /\ \E n \in 0..MaxRows : rows \in [1..n -> InputRows]
    /\ rows_in = rows
    /\ pc = "phase1"
    /\ i = 0
    /\ status = ""
    /\ stats = [k \in StatKeys |-> 0]
    /\ suspect_rows = << >>
    /\ j = 0
    /\ response = VerifyDefaults
    /\ result = NoResult
    /\ calls = << >>
    /\ output = << >>
    /\ start = 0
    /\ results = << >>
    /\ answers = << >>
    /\ env = RunningEnv

\* Phase1Row with the invalid branch setting the status but keeping the phone
Phase1Row_InvalidKept(row, st) ==
    LET r == [row EXCEPT !.phone_status = st, !.verified_phone = NoString]
    IN  CASE st = "fake" -> [r EXCEPT !.phone_number = NoString, !.phone_status = "removed"]
          [] st = "partial" -> [r EXCEPT !.phone_status = "partial"]
          [] st = "invalid" -> [r EXCEPT !.phone_status = "removed"]
          [] OTHER -> r

\* Phase1Row storing the stripped phone it classified back into the row
Phase1Row_StoresStripped(row, st) ==
    LET r == [row EXCEPT !.phone_status = st, !.verified_phone = NoString,
                         !.phone_number = strip(@)]
    IN  CASE st = "fake" -> [r EXCEPT !.phone_number = NoString, !.phone_status = "removed"]
          [] st = "partial" -> [r EXCEPT !.phone_status = "partial"]
          [] st = "invalid" -> [r EXCEPT !.phone_number = NoString, !.phone_status = "removed"]
          [] OTHER -> r

\* the row after one iteration of the phase 1 loop
\* Phase1Row leaving a fake number and its status in place
Phase1Row_FakeKept(row, st) ==
    LET r == [row EXCEPT !.phone_status = st, !.verified_phone = NoString]
    IN  CASE st = "partial" -> [r EXCEPT !.phone_status = "partial"]
          [] st = "invalid" -> [r EXCEPT !.phone_number = NoString, !.phone_status = "removed"]
          [] OTHER -> r

\* Phase1Row without row["verified_phone"] = ""
Phase1Row_KeepsVerified(row, st) ==
    LET r == [row EXCEPT !.phone_status = st]
    IN  CASE st = "fake" -> [r EXCEPT !.phone_number = NoString, !.phone_status = "removed"]
          [] st = "partial" -> [r EXCEPT !.phone_status = "partial"]
          [] st = "invalid" -> [r EXCEPT !.phone_number = NoString, !.phone_status = "removed"]
          [] OTHER -> r

Phase1Row(row, st) ==
    LET r == [row EXCEPT !.phone_status = st, !.verified_phone = NoString]
    IN  CASE st = "fake" -> [r EXCEPT !.phone_number = NoString, !.phone_status = "removed"]
          [] st = "partial" -> [r EXCEPT !.phone_status = "partial"]
          [] st = "invalid" -> [r EXCEPT !.phone_number = NoString, !.phone_status = "removed"]
          [] OTHER -> r

\* one iteration of "for i, row in enumerate(rows)"
HeuristicStep ==
    /\ pc = "phase1"
    /\ i < Len(rows)
    /\ LET row == rows[i + 1]
           st == heuristic_check(strip(row.phone_number), strip(row.phone_source))
       IN  /\ status' = st
           /\ stats' = [stats EXCEPT ![st] = @ + 1]
           /\ rows' = [rows EXCEPT ![i + 1] = Phase1Row(row, st)]
           /\ suspect_rows' = IF st = "suspect" THEN Append(suspect_rows, i + 1)
                              ELSE suspect_rows
    /\ i' = i + 1
    /\ UNCHANGED <<rows_in, pc, j, response, result, calls, output, enrichVars, env>>

\* phase 2 entered as soon as a suspect row is queued
EndPhase1_Early ==
    /\ pc = "phase1"
    /\ suspect_rows # << >>
    /\ pc' = "phase2"
    /\ UNCHANGED <<rows, rows_in, i, status, stats, suspect_rows, j, response, result, calls,
                   output, enrichVars, env>>

\* the phase 1 loop is exhausted: "if suspect_rows"
EndPhase1 ==
    /\ pc = "phase1"
    /\ i = Len(rows)
    /\ pc' = IF suspect_rows # << >> THEN "phase2" ELSE "write"
    /\ UNCHANGED <<rows, rows_in, i, status, stats, suspect_rows, j, response, result, calls,
                   output, enrichVars, env>>

\* SuspectIndex taking the loop counter j for the row index
SuspectIndex_LoopCounter(queue, k) == k

\* the (idx, row) pair the phase 2 loop takes from suspect_rows: the row is
\* the one queued in phase 1
SuspectIndex(queue, k) == queue[k]

\* Phase2Row without the final else branch: an indeterminate result leaves
\* the row as phase 1 left it
Phase2Row_SilentDefault(row, res) ==
    CASE res.is_valid = "True" -> [row EXCEPT !.phone_status = "verified"]
      [] res.is_valid = "False" ->
            IF res.corrected_phone # NoString
            THEN [row EXCEPT !.phone_status = "rejected",
                             !.verified_phone = res.corrected_phone]
            ELSE [row EXCEPT !.phone_status = "rejected", !.phone_number = NoString]
      [] OTHER -> row

\* the row after the branches on result["is_valid"]
Phase2Row(row, res) ==
    CASE res.is_valid = "True" -> [row EXCEPT !.phone_status = "verified"]
      [] res.is_valid = "False" ->
            IF res.corrected_phone # NoString
            THEN [row EXCEPT !.phone_status = "rejected",
                             !.verified_phone = res.corrected_phone]
            ELSE [row EXCEPT !.phone_status = "rejected", !.phone_number = NoString]
      [] OTHER -> [row EXCEPT !.phone_status = "unverified"]

\* one iteration of "for j, (idx, row) in enumerate(suspect_rows)"; an
\* exception raised by verify_with_exa leaves main()
VerifyStep ==
    /\ pc = "phase2"
    /\ j < Len(suspect_rows)
    /\ \E resp \in VerifyResponses :
         LET idx == SuspectIndex(suspect_rows, j + 1)
             res == verify_with_exa(resp)
         IN  /\ calls' = Append(calls, idx)
             /\ response' = resp
             /\ result' = res
             /\ IF res.raised
                THEN /\ pc' = "aborted"
                     /\ UNCHANGED <<rows, stats, j>>
                ELSE /\ rows' = [rows EXCEPT ![idx] = Phase2Row(rows[idx], res)]
                     /\ stats' = CASE res.is_valid = "True" ->
                                        [stats EXCEPT !["verified"] = @ + 1]
                                   [] res.is_valid = "False" ->
                                        [stats EXCEPT !["rejected"] = @ + 1]
                                   [] OTHER -> stats
                     /\ j' = j + 1
                     /\ pc' = IF j + 1 = Len(suspect_rows) THEN "write" ELSE "phase2"
    /\ UNCHANGED <<rows_in, i, status, suspect_rows, output, enrichVars, env>>

\* the "Removed (bad data)" line of the final summary
RemovedBadData == stats["fake"] + stats["invalid"] + stats["rejected"]

\* csv.DictWriter(...).writerows(rows)
WriteOutput ==
    /\ pc = "write"
    /\ output' = rows
    /\ pc' = "done"
    /\ UNCHANGED <<rows, rows_in, i, status, stats, suspect_rows, j, response, result, calls,
                   enrichVars, env>>

Next == HeuristicStep \/ EndPhase1 \/ VerifyStep \/ WriteOutput

Spec == Init /\ [][Next]_vars

\* ------------------------------------------------------------------------
\* enrich_linkedin.py: inputs of a batch enrichment run
\* ------------------------------------------------------------------------
BATCH_SIZE == 5

MaxPeople == 6

\* a key the dict does not have
Absent == "<absent>"

NameAl == <<"A", "l", " ">>

\* the rows of the input table: a named person with the role and email
\* columns filled, and a row with an empty name
PersonPool ==
    { [name |-> NameAl, role |-> "cfo", linkedin |-> Absent, email |-> "old@x",
       additional_links |-> Absent],
      [name |-> NoString, role |-> Absent, linkedin |-> Absent, email |-> Absent,
       additional_links |-> Absent] }

\* one item of an answer: an object (kind "dict") with a name member that is
\* a string, absent or null and an additional_links member that is a list of
\* strings, absent or null; or a JSON value that is not an object
ItemAl ==
    [kind |-> "dict", name_kind |-> "str", name |-> <<" ", "A", "L">>, linkedin |-> "li/al",
     role |-> "ceo", email |-> "al@x", links_kind |-> "list", additional_links |-> "t/al"]

ItemBo == [ItemAl EXCEPT !.name = <<"B", "o">>, !.linkedin = "li/bo", !.role = Absent]

ItemNoName == [ItemAl EXCEPT !.name_kind = "absent", !.name = NoString]

ItemNullName == [ItemAl EXCEPT !.name_kind = "null", !.name = NoString]

ItemNullLinks == [ItemAl EXCEPT !.links_kind = "null", !.additional_links = Absent]

ItemNotObject == [ItemAl EXCEPT !.kind = "other"]

AnswerLists ==
    { << >>, <<ItemAl>>, <<ItemBo, ItemAl>>, <<ItemNoName>>, <<ItemNullName>>,
      <<ItemNullLinks>>, <<ItemNotObject>> }

\* What the answer service can do on one batch call: the transport fails
\* (error, timeout, body that is not JSON), it answers with an HTTP error, or
\* the body decodes to a JSON value that is an object or not; the "answer"
\* member of the object is absent, null, a list, an object (with a "people"
\* member that is a list, null or absent) or a string that json.loads
\* decodes to a list, an object, a number, or fails to decode.
BatchDefaults ==
    [transport |-> "ok", body |-> "dict", answer |-> "absent", decoded |-> "none",
     people |-> "absent", items |-> << >>]

BatchResponses ==
    { [BatchDefaults EXCEPT !.transport = "error"],
      [BatchDefaults EXCEPT !.transport = "http_error"],
      [BatchDefaults EXCEPT !.body = "list"],
      BatchDefaults,
      [BatchDefaults EXCEPT !.answer = "null"],
      [BatchDefaults EXCEPT !.answer = "str", !.decoded = "bad"],
      [BatchDefaults EXCEPT !.answer = "str", !.decoded = "num"],
      [BatchDefaults EXCEPT !.answer = "str", !.decoded = "list", !.items = <<ItemAl>>],
      [BatchDefaults EXCEPT !.answer = "str", !.decoded = "dict", !.people = "list",
                            !.items = <<ItemAl>>],
      [BatchDefaults EXCEPT !.answer = "dict", !.people = "list", !.items = <<ItemBo, ItemAl>>],
      [BatchDefaults EXCEPT !.answer = "dict", !.people = "null"],
      [BatchDefaults EXCEPT !.answer = "dict", !.people = "absent", !.items = <<ItemAl>>] }
    \cup { [BatchDefaults EXCEPT !.answer = "list", !.items = l] : l \in AnswerLists }

\* ------------------------------------------------------------------------
\* enrich_linkedin.py: enrich_batch, match_results, main
\* ------------------------------------------------------------------------
NoResults == [raised |-> FALSE, results |-> << >>]

\* enrich_batch(rows): the list it returns, or raised = TRUE when an
\* exception leaves the function.  An object answer without "people" is
\* returned as the one-element list [answer].
enrich_batch(resp) ==
    IF resp.transport # "ok" THEN NoResults
    ELSE IF resp.body # "dict" THEN [NoResults EXCEPT !.raised = TRUE]
    ELSE IF resp.answer = "str" /\ resp.decoded = "bad" THEN NoResults
    ELSE LET shape == IF resp.answer = "str" THEN resp.decoded ELSE resp.answer
         IN  CASE shape \in {"absent", "list"} -> [NoResults EXCEPT !.results = resp.items]
               [] shape = "dict" ->
                     IF resp.people = "null" THEN NoResults
                     ELSE [NoResults EXCEPT !.results = resp.items]
               [] OTHER -> NoResults

\* r.get("name", "").strip().lower() raises for an item that is not an
\* object and for a name that is null
NameRaises(r) == r.kind # "dict" \/ r.name_kind = "null"

\* rname without the lower(): result names are indexed as returned
rname_NoLower(r) == strip(r.name)

rname(r) == lower(strip(r.name))

\* the first loop of match_results: the index of the first result that
\* raises, or 0
FirstRaisingResult(res) ==
    IF \E k \in DOMAIN res : NameRaises(res[k])
    THEN CHOOSE k \in DOMAIN res :
            /\ NameRaises(res[k])
            /\ \A m \in 1..(k - 1) : ~NameRaises(res[m])
    ELSE 0

\* result_map.get(name): the index of the last result stored under the name,
\* or 0
result_map(res, name) ==
    LET hits == {k \in DOMAIN res : rname(res[k]) # NoString /\ rname(res[k]) = name}
    IN  IF hits = {} THEN 0 ELSE CHOOSE k \in hits : \A m \in hits : m <= k

\* dict.get(key, default) on a member that may be absent
GetOr(value, default) == IF value = Absent THEN default ELSE value

\* "; ".join(match.get("additional_links", [])) raises for a null member
JoinRaises(match) == match.links_kind = "null"

\* the body of "for row in rows" for one row and its match
MatchedRow(row, match) ==
    [row EXCEPT !.linkedin = GetOr(match.linkedin, ""),
                !.role = GetOr(match.role, GetOr(row.role, "")),
                !.email = GetOr(match.email, ""),
                !.additional_links =
                    IF match.links_kind = "absent" THEN "" ELSE match.additional_links]

\* UnmatchedRow assigning the defaults instead of row.setdefault
UnmatchedRow_Assigns(row) ==
    [row EXCEPT !.linkedin = "", !.email = "", !.additional_links = ""]

UnmatchedRow(row) ==
    [row EXCEPT !.linkedin = GetOr(@, ""),
                !.email = GetOr(@, ""),
                !.additional_links = GetOr(@, "")]

\* match_results(rows, results) on the batch: the rows after it, and whether
\* it raised; the rows before the one that raises are already updated, and
\* the row that raises has all but additional_links assigned
match_results(batch, res) ==
    IF FirstRaisingResult(res) # 0 THEN [raised |-> TRUE, rows |-> batch]
    ELSE LET hit(k) == result_map(res, lower(strip(batch[k].name)))
             raises(k) == hit(k) # 0 /\ JoinRaises(res[hit(k)])
             stop == IF \E k \in DOMAIN batch : raises(k)
                     THEN CHOOSE k \in DOMAIN batch :
                             raises(k) /\ \A m \in 1..(k - 1) : ~raises(m)
                     ELSE Len(batch) + 1
         IN  [raised |-> stop <= Len(batch),
              rows |-> [k \in DOMAIN batch |->
                          IF k > stop THEN batch[k]
                          ELSE IF k = stop
                          THEN [MatchedRow(batch[k], res[hit(k)])
                                  EXCEPT !.additional_links = batch[k].additional_links]
                          ELSE IF hit(k) # 0 THEN MatchedRow(batch[k], res[hit(k)])
                          ELSE UnmatchedRow(batch[k])]]

Min(a, b) == IF a < b THEN a ELSE b

\* the batch taken as rows[start:], to the end of the table
Batch_ToEnd(table, from) == SubSeq(table, from + 1, Len(table))

\* rows[start : start + BATCH_SIZE]
Batch(table, from) == SubSeq(table, from + 1, Min(from + BATCH_SIZE, Len(table)))

\* the table with the batch at "from" replaced
WithBatch(table, from, batch) ==
    [k \in DOMAIN table |->
        IF k > from /\ k <= from + Len(batch) THEN batch[k - from] ELSE table[k]]

ValidateIdle ==
    /\ i = 0
    /\ status = ""
    /\ stats = [k \in StatKeys |-> 0]
    /\ suspect_rows = << >>
    /\ j = 0
    /\ result = NoResult

InitEnrich ==
    /\ \E n \in 0..MaxPeople : rows \in [1..n -> PersonPool]
    /\ rows_in = rows
    /\ pc = "batches"
    /\ start = 0
    /\ results = << >>
    /\ answers = << >>
    /\ response = BatchDefaults
    /\ calls = << >>
    /\ output = << >>
    /\ env = RunningEnv
    /\ ValidateIdle

\* one iteration of "for start in range(0, len(rows), BATCH_SIZE)"; an
\* exception raised by enrich_batch or match_results leaves main()
BatchStep ==
    /\ pc = "batches"
    /\ start < Len(rows)
    /\ \E resp \in BatchResponses :
         LET batch == Batch(rows, start)
             got == enrich_batch(resp)
             matched == match_results(batch, got.results)
         IN  /\ response' = resp
             /\ calls' = Append(calls, start)
             /\ results' = got.results
             /\ answers' = Append(answers, got.results)
             /\ IF got.raised
                THEN /\ pc' = "aborted"
                     /\ UNCHANGED <<rows, start>>
                ELSE IF got.results = << >>
                THEN /\ start' = start + BATCH_SIZE
                     /\ UNCHANGED <<rows, pc>>
                ELSE /\ rows' = WithBatch(rows, start, matched.rows)
                     /\ IF matched.raised
                        THEN /\ pc' = "aborted"
                             /\ UNCHANGED start
                        ELSE /\ start' = start + BATCH_SIZE
                             /\ UNCHANGED pc
    /\ UNCHANGED <<rows_in, output, validateVars, env>>

\* the value csv.DictWriter writes for a key the row does not have
Written(value) == GetOr(value, "")

\* the loop is exhausted: writer.writerows(rows)
WriteEnriched ==
    /\ pc = "batches"
    /\ start >= Len(rows)
    /\ output' = [k \in DOMAIN rows |->
                    [name |-> rows[k].name,
                     role |-> Written(rows[k].role),
                     linkedin |-> Written(rows[k].linkedin),
                     email |-> Written(rows[k].email),
                     additional_links |-> Written(rows[k].additional_links)]]
    /\ pc' = "done"
    /\ UNCHANGED <<rows, rows_in, start, results, answers, response, calls, validateVars, env>>

NextEnrich == BatchStep \/ WriteEnriched

SpecEnrich == InitEnrich /\ [][NextEnrich]_vars

\* ------------------------------------------------------------------------
\* enrich_phones.py: match_results, main, and validate_enrichment.py run on
\* the table enrich_phones.py wrote
\* ------------------------------------------------------------------------
\* a member or column that is absent, where the values are character
\* sequences
NoColumn == <<Absent>>

\* dict.get(key, "") on such a member
GetString(value) == IF value = NoColumn THEN NoString ELSE value

\* the rows of the input table of enrich_phones.py: people without the
\* phone_number, email and source columns
PhonePersonPool ==
    { [name |-> NameAl, phone_number |-> NoColumn, email |-> Absent, source |-> NoColumn],
      [name |-> <<"B", "o">>, phone_number |-> NoColumn, email |-> Absent,
       source |-> NoColumn] }

\* one item of an answer of the phone lookup
PhoneItemFiu ==
    [kind |-> "dict", name_kind |-> "str", name |-> <<" ", "A", "L">>,
     phone_number |-> Phone305, email |-> "al@x", source |-> SourceFiu]

PhoneItemNoSource == [PhoneItemFiu EXCEPT !.source = NoColumn]

PhoneItem123 == [PhoneItemFiu EXCEPT !.phone_number = Phone123]

PhoneItemNotObject == [PhoneItemFiu EXCEPT !.kind = "other"]

PhoneResponses ==
    { [BatchDefaults EXCEPT !.transport = "error"],
      [BatchDefaults EXCEPT !.answer = "list", !.items = <<PhoneItemFiu>>],
      [BatchDefaults EXCEPT !.answer = "list", !.items = <<PhoneItemNoSource>>],
      [BatchDefaults EXCEPT !.answer = "list", !.items = <<PhoneItemNotObject>>],
      [BatchDefaults EXCEPT !.answer = "dict", !.people = "list",
                            !.items = <<PhoneItem123>>] }

\* enrich_phones.match_results(rows, results) on the batch: the rows after
\* it, and whether it raised
match_results_phones(batch, res) ==
    IF FirstRaisingResult(res) # 0 THEN [raised |-> TRUE, rows |-> batch]
    ELSE LET hit(k) == result_map(res, lower(strip(batch[k].name)))
         IN  [raised |-> FALSE,
              rows |-> [k \in DOMAIN batch |->
                          IF hit(k) # 0
                          THEN [batch[k] EXCEPT
                                  !.phone_number = GetString(res[hit(k)].phone_number),
                                  !.email = GetOr(res[hit(k)].email, ""),
                                  !.source = GetString(res[hit(k)].source)]
                          ELSE [batch[k] EXCEPT
                                  !.phone_number = GetString(@),
                                  !.email = GetOr(@, ""),
                                  !.source = GetString(@)]]]

InitPipeline ==
    /\ \E n \in 0..MaxRows : rows \in [1..n -> PhonePersonPool]
    /\ rows_in = rows
    /\ pc = "batches"
    /\ start = 0
    /\ results = << >>
    /\ answers = << >>
    /\ response = BatchDefaults
    /\ calls = << >>
    /\ output = << >>
    /\ env = RunningEnv
    /\ ValidateIdle

\* one iteration of "for start in range(0, len(rows), BATCH_SIZE)" of
\* enrich_phones.main
PhoneBatchStep ==
    /\ pc = "batches"
    /\ start < Len(rows)
    /\ \E resp \in PhoneResponses :
         LET batch == Batch(rows, start)
             got == enrich_batch(resp)
             matched == match_results_phones(batch, got.results)
         IN  /\ response' = resp
             /\ calls' = Append(calls, start)
             /\ results' = got.results
             /\ answers' = Append(answers, got.results)
             /\ IF got.raised \/ (got.results # << >> /\ matched.raised)
                THEN /\ pc' = "aborted"
                     /\ UNCHANGED <<rows, start>>
                ELSE /\ rows' = IF got.results = << >> THEN rows
                                ELSE WithBatch(rows, start, matched.rows)
                     /\ start' = start + BATCH_SIZE
                     /\ UNCHANGED pc
    /\ UNCHANGED <<rows_in, output, validateVars, env>>

\* the loop is exhausted: writer.writerows(rows) of enrich_phones.main
WritePhones ==
    /\ pc = "batches"
    /\ start >= Len(rows)
    /\ output' = [k \in DOMAIN rows |->
                    [name |-> rows[k].name,
                     phone_number |-> GetString(rows[k].phone_number),
                     email |-> Written(rows[k].email),
                     source |-> GetString(rows[k].source)]]
    /\ pc' = "enriched"
    /\ UNCHANGED <<rows, rows_in, start, results, answers, response, calls, validateVars, env>>

\* a row of the enriched table as validate_enrichment.main reads it: the
\* table has no phone_source column, so row.get("phone_source", "") is ""
EnrichedRow(record) ==
    [name |-> record.name, phone_number |-> record.phone_number, email |-> record.email,
     source |-> record.source, phone_source |-> NoString, phone_status |-> "",
     verified_phone |-> NoString]

\* validate_enrichment.main starts on the table enrich_phones.main wrote
ReadEnriched ==
    /\ pc = "enriched"
    /\ rows' = [k \in DOMAIN output |-> EnrichedRow(output[k])]
    /\ rows_in' = rows'
    /\ pc' = "phase1"
    /\ calls' = << >>
    /\ UNCHANGED <<output, start, results, answers, response, validateVars, env>>

\* phase 2 is not part of this run: no row of the enriched table is queued
NextPipeline ==
    PhoneBatchStep \/ WritePhones \/ ReadEnriched \/ HeuristicStep \/ EndPhase1 \/ WriteOutput

SpecPipeline == InitPipeline /\ [][NextPipeline]_vars

\* ------------------------------------------------------------------------
\* enrich_superhuman.py: find_phone, main (single-record enrichment)
\* ------------------------------------------------------------------------
\* the rows of the input table: a named person with phone_number,
\* phone_source and personal_email filled, a named person without them,
\* and a row with a blank name
SinglePool ==
    { [name |-> NameAl, phone_number |-> "old-phone", phone_source |-> "old-source",
       personal_email |-> "old@x", found_twitter |-> Absent, found_website |-> Absent],
      [name |-> NameAl, phone_number |-> Absent, phone_source |-> Absent,
       personal_email |-> Absent, found_twitter |-> Absent, found_website |-> Absent],
      [name |-> <<" ">>, phone_number |-> "old-phone", phone_source |-> Absent,
       personal_email |-> Absent, found_twitter |-> Absent, found_website |-> Absent] }

\* What the answer service can do on one lookup: as for a batch call, with
\* an object answer holding the members of OUTPUT_SCHEMA or lacking them
SingleDefaults ==
    [transport |-> "ok", body |-> "dict", answer |-> "absent", decoded |-> "none",
     phone_number |-> Absent, phone_source |-> Absent, personal_email |-> Absent,
     twitter |-> Absent, website |-> Absent]

FoundFields ==
    [SingleDefaults EXCEPT !.phone_number = "+1-305", !.phone_source = "fiu.edu",
                           !.personal_email = "", !.twitter = "@al", !.website = ""]

SingleResponses ==
    { [SingleDefaults EXCEPT !.transport = "error"],
      [SingleDefaults EXCEPT !.transport = "http_error"],
      [SingleDefaults EXCEPT !.body = "list"],
      SingleDefaults,
      [SingleDefaults EXCEPT !.answer = "null"],
      [SingleDefaults EXCEPT !.answer = "list"],
      [SingleDefaults EXCEPT !.answer = "dict"],
      [FoundFields EXCEPT !.answer = "dict"],
      [SingleDefaults EXCEPT !.answer = "str", !.decoded = "bad"],
      [SingleDefaults EXCEPT !.answer = "str", !.decoded = "list"],
      [SingleDefaults EXCEPT !.answer = "str", !.decoded = "num"],
      [FoundFields EXCEPT !.answer = "str", !.decoded = "dict"] }

\* empty = {"phone_number": "", "phone_source": "", ...}
empty ==
    [raised |-> FALSE, phone_number |-> "", phone_source |-> "", personal_email |-> "",
     twitter |-> "", website |-> ""]

\* find_phone(ctx): the dict it returns, or raised = TRUE when an exception
\* leaves the function (data.get or answer.get on a value that is not an
\* object)
find_phone(resp) ==
    IF resp.transport # "ok" THEN empty
    ELSE IF resp.body # "dict" THEN [empty EXCEPT !.raised = TRUE]
    ELSE IF resp.answer = "str" /\ resp.decoded = "bad" THEN empty
    ELSE LET shape == IF resp.answer = "str" THEN resp.decoded ELSE resp.answer
         IN  IF shape \in {"absent", "dict"}
             THEN [raised |-> FALSE,
                   phone_number |-> GetOr(resp.phone_number, ""),
                   phone_source |-> GetOr(resp.phone_source, ""),
                   personal_email |-> GetOr(resp.personal_email, ""),
                   twitter |-> GetOr(resp.twitter, ""),
                   website |-> GetOr(resp.website, "")]
             ELSE [empty EXCEPT !.raised = TRUE]

\* the variables a single-record run does not use
SingleIdle ==
    /\ status = ""
    /\ stats = [k \in StatKeys |-> 0]
    /\ suspect_rows = << >>
    /\ j = 0
    /\ start = 0
    /\ results = << >>
    /\ answers = << >>
    /\ env = RunningEnv

singleIdleVars == <<status, stats, suspect_rows, j, start, results, answers>>

InitSingle ==
    /\ \E n \in 0..MaxRows : rows \in [1..n -> SinglePool]
    /\ rows_in = rows
    /\ pc = "lookups"
    /\ i = 0
    /\ response = SingleDefaults
    /\ result = empty
    /\ calls = << >>
    /\ output = << >>
    /\ SingleIdle

\* the row after the five assignments from result
AssignedRow(row, res) ==
    [row EXCEPT !.phone_number = res.phone_number,
                !.phone_source = res.phone_source,
                !.personal_email = res.personal_email,
                !.found_twitter = res.twitter,
                !.found_website = res.website]

\* one iteration of "for i, row in enumerate(rows)" for a row without a
\* name: "continue"
SkipNameless ==
    /\ pc = "lookups"
    /\ i < Len(rows)
    /\ strip(rows[i + 1].name) = NoString
    /\ i' = i + 1
    /\ UNCHANGED <<rows, rows_in, pc, response, result, calls, output, singleIdleVars, env>>

\* one iteration for a named row: find_phone and the assignments; an
\* exception raised by find_phone leaves main()
LookupStep ==
    /\ pc = "lookups"
    /\ i < Len(rows)
    /\ strip(rows[i + 1].name) # NoString
    /\ \E resp \in SingleResponses :
         LET res == find_phone(resp)
         IN  /\ response' = resp
             /\ result' = res
             /\ calls' = Append(calls, i + 1)
             /\ IF res.raised
                THEN /\ pc' = "aborted"
                     /\ UNCHANGED <<rows, i>>
                ELSE /\ rows' = [rows EXCEPT ![i + 1] = AssignedRow(rows[i + 1], res)]
                     /\ i' = i + 1
                     /\ UNCHANGED pc
    /\ UNCHANGED <<rows_in, output, singleIdleVars, env>>

\* the loop is exhausted: writer.writerows(rows)
WriteSingle ==
    /\ pc = "lookups"
    /\ i = Len(rows)
    /\ output' = [k \in DOMAIN rows |->
                    [name |-> rows[k].name,
                     phone_number |-> Written(rows[k].phone_number),
                     phone_source |-> Written(rows[k].phone_source),
                     personal_email |-> Written(rows[k].personal_email),
                     found_twitter |-> Written(rows[k].found_twitter),
                     found_website |-> Written(rows[k].found_website)]]
    /\ pc' = "done"
    /\ UNCHANGED <<rows, rows_in, i, response, result, calls, singleIdleVars, env>>

NextSingle == SkipNameless \/ LookupStep \/ WriteSingle

SpecSingle == InitSingle /\ [][NextSingle]_vars

\* ------------------------------------------------------------------------
\* clean_csv.py: the predicates and the field cleaners
\* ------------------------------------------------------------------------
LowerLetters ==
    {"a", "b", "c", "d", "e", "f", "g", "h", "i", "j", "k", "l", "m",
     "n", "o", "p", "q", "r", "s", "t", "u", "v", "w", "x", "y", "z"}

UpperLetters ==
    {"A", "B", "C", "D", "E", "F", "G", "H", "I", "J", "K", "L", "M",
     "N", "O", "P", "Q", "R", "S", "T", "U", "V", "W", "X", "Y", "Z"}

\* the characters of the class \w
WordChars == DigitChars \cup LowerLetters \cup UpperLetters \cup {"_"}

\* "sub in s"
In(sub, s) == Search(Lit(sub), s)

\* s.startswith(prefix)
startswith(s, prefix) == MatchAt(Lit(prefix), s, 1)

\* s.endswith(suffix)
endswith(s, suffix) == SearchAtEnd(Lit(suffix), s)

\* s.rstrip(chars)
RECURSIVE rstrip_chars(_, _)
rstrip_chars(s, chars) ==
    IF s # << >> /\ s[Len(s)] \in chars
    THEN rstrip_chars(SubSeq(s, 1, Len(s) - 1), chars)
    ELSE s

\* s.split(","): the parts between the commas, never an empty list
RECURSIVE split(_)
split(s) ==
    IF \A p \in 1..Len(s) : s[p] # "," THEN <<s>>
    ELSE LET p == CHOOSE q \in 1..Len(s) :
                      s[q] = "," /\ \A r \in 1..(q - 1) : s[r] # ","
         IN  <<SubSeq(s, 1, p - 1)>> \o split(SubSeq(s, p + 1, Len(s)))

\* [e.strip() for e in s.split(",")]
stripped_parts(s) == [k \in 1..Len(split(s)) |-> strip(split(s)[k])]

IsStar(c) == c = "*"

\* re.sub(r'\D', '', p)
digits_of(p) == SelectSeq(p, IsDigit)

\* set(s)
CharSet(s) == {s[k] : k \in 1..Len(s)}

FAKE_PHONES ==
    { <<"1", "2", "3", "-", "4", "5", "6", "-", "7", "8", "9", "0">>,
      <<"+", "1", " ", "1", "2", "3", "-", "4", "5", "6", "-", "7", "8", "9", "0">>,
      <<"1", "2", "3", " ", "4", "5", "6", " ", "7", "8", "9", "0">>,
      <<"+", "1", "-", "2", "0", "2", "-", "5", "5", "5", "-", "0", "1", "2", "3">>,
      <<"+", "1", "-", "5", "1", "2", "-", "5", "5", "5", "-", "1", "2", "3", "4">>,
      <<"+", "1", " ", "2", "3", "4", " ", "5", "6", "7", " ", "8", "9", "0", "0">>,
      <<"+", "1", "-", "5", "5", "5", "-", "1", "2", "3", "-", "4", "5", "6", "7">>,
      <<"+", "1", "-", "4", "0", "7", "-", "5", "5", "5", "-", "1", "2", "3", "4">>,
      <<"+", "1", " ", "4", "1", "6", "-", "1", "2", "3", "-", "4", "5", "6", "7">> }

\* a word boundary \b between positions p - 1 and p of s
WordBoundary(s, p) ==
    LET before == p > 1 /\ s[p - 1] \in WordChars
        after == p <= Len(s) /\ s[p] \in WordChars
    IN  before # after

Sep555 == {"-", ".", " "}

\* re.search(r'\b555[-.\s]?\d{4}\b', p)
Search555(p) ==
    \E q \in 1..Len(p) :
        /\ WordBoundary(p, q)
        /\ \/ /\ MatchAt(<<{"5"}, {"5"}, {"5"}, DigitChars, DigitChars, DigitChars,
                           DigitChars>>, p, q)
              /\ WordBoundary(p, q + 7)
           \/ /\ MatchAt(<<{"5"}, {"5"}, {"5"}, Sep555, DigitChars, DigitChars,
                           DigitChars, DigitChars>>, p, q)
              /\ WordBoundary(p, q + 8)

is_fake_phone(phone) ==
    IF phone = << >> THEN FALSE
    ELSE LET p == strip(phone)
         IN  \/ p \in FAKE_PHONES
             \/ Search555(p)
             \/ Len(digits_of(p)) >= 7 /\ Cardinality(CharSet(digits_of(p))) <= 2

junk_phrases ==
    { <<"n", "o", "t", " ", "p", "u", "b", "l", "i", "c", "l", "y", " ", "a", "v", "a", "i", "l", "a", "b", "l", "e">>,
      <<"n", "o", "t", " ", "p", "r", "o", "v", "i", "d", "e", "d">>,
      <<"n", "o", "t", " ", "f", "o", "u", "n", "d">>,
      <<"p", "r", "e", "p", "a", "r", "i", "n", "g", " ", "p", "r", "o", "f", "i", "l", "e">>,
      <<"u", "n", "k", "n", "o", "w", "n">>,
      <<"n", "/", "a">>,
      <<"n", "o", "n", "e">>,
      <<"n", "u", "l", "l">>,
      <<"p", "r", "o", "t", "e", "c", "t", "e", "d">>,
      <<"h", "t", "t", "p", ":", "/", "/", "c", "l", "i", "c", "k", "-", "t", "o", "-", "o", "p", "e", "n">> }

\* is_junk comparing the value without strip()
is_junk_NoStrip(val) == val # << >> /\ lower(val) \in junk_phrases

is_junk(val) == val # << >> /\ lower(strip(val)) \in junk_phrases

is_url_not_email(val) ==
    /\ val # << >>
    /\ LET v == strip(val)
       IN  \/ startswith(v, <<"h", "t", "t", "p">>)
           \/ startswith(v, <<"w", "w", "w", ".">>)
           \/ In(<<"r", "o", "c", "k", "e", "t", "r", "e", "a", "c", "h", ".", "c", "o">>, v)
           \/ In(<<"c", "o", "n", "t", "a", "c", "t", "o", "u", "t", ".", "c", "o", "m">>, v)

\* stars / total > 0.6, in tenths
is_too_masked(val) ==
    /\ val # << >>
    /\ LET stars == Len(SelectSeq(val, IsStar))
           total == Len(val)
       IN  stars > 0 /\ 10 * stars > 6 * total

Verified == <<"V", "e", "r", "i", "f", "i", "e", "d">>

clean_full_name(name) ==
    IF name = << >> THEN name
    ELSE IF endswith(name, Verified)
         THEN strip(SubSeq(name, 1, Len(name) - Len(Verified)))
         ELSE name

\* the test an entry of a multi-valued email passes to be kept
ValidEmail(e) ==
    /\ ~(is_junk(e) \/ is_url_not_email(e) \/ is_too_masked(e))
    /\ ~In(<<"@", "e", "x", "a", "m", "p", "l", "e", ".", "c", "o", "m">>, e)
    /\ In(<<"@">>, e) /\ In(<<".">>, e) /\ ~startswith(e, <<"h", "t", "t", "p">>)

clean_email(email) ==
    IF email = << >> THEN << >>
    ELSE LET valid == SelectSeq(stripped_parts(email), ValidEmail)
         IN  IF valid # << >> THEN valid[1] ELSE << >>

\* the test an entry of a multi-valued phone passes to be kept
ValidPhone(p) ==
    /\ ~(is_junk(p) \/ is_fake_phone(p) \/ is_too_masked(p))
    /\ Len(digits_of(p)) >= 7

clean_phone(phone) ==
    IF phone = << >> THEN << >>
    ELSE LET valid == SelectSeq(stripped_parts(phone), ValidPhone)
         IN  IF valid # << >> THEN valid[1] ELSE << >>

\* "linkedin.com"
LinkedinCom ==
    <<"l", "i", "n", "k", "e", "d", "i", "n", ".", "c", "o", "m">>

\* the bare roots clean_linkedin compares with
BareRoots ==
    { <<"h", "t", "t", "p", "s", ":", "/", "/", "l", "i", "n", "k", "e", "d", "i", "n", ".", "c", "o", "m">>,
      <<"h", "t", "t", "p", ":", "/", "/", "l", "i", "n", "k", "e", "d", "i", "n", ".", "c", "o", "m">>,
      <<"h", "t", "t", "p", "s", ":", "/", "/", "w", "w", "w", ".", "l", "i", "n", "k", "e", "d", "i", "n", ".", "c", "o", "m">> }

clean_linkedin(url) ==
    IF url = << >> THEN << >>
    ELSE IF is_junk(url) THEN << >>
    ELSE IF rstrip_chars(strip(url), {"/"}) \in BareRoots THEN << >>
    ELSE IF ~In(LinkedinCom, url) THEN << >>
    ELSE IF In(<<"a", "u", "t", "h", "w", "a", "l", "l">>, url) THEN << >>
    ELSE strip(url)

clean_role(role) ==
    IF is_junk(role) THEN << >>
    ELSE IF role # << >> THEN strip(role) ELSE << >>

clean_company(company) ==
    IF is_junk(company) THEN << >>
    ELSE IF company # << >> THEN strip(company) ELSE << >>

\* ------------------------------------------------------------------------
\* clean_csv.py: main (the cleaning run)
\* ------------------------------------------------------------------------
\* the field values the rows of the input table are drawn from
\* "alVerified"
NameAlVerified ==
    <<"a", "l", "V", "e", "r", "i", "f", "i", "e", "d">>

\* "alVerifiedVerified"
NameTwiceVerified ==
    <<"a", "l", "V", "e", "r", "i", "f", "i", "e", "d", "V", "e", "r", "i", "f", "i",
      "e", "d">>

\* "al Verified"
NameSpacedVerified ==
    <<"a", "l", " ", "V", "e", "r", "i", "f", "i", "e", "d">>

\* "a@b.co"
EmailOk ==
    <<"a", "@", "b", ".", "c", "o">>

\* " a@b.co "
EmailPadded ==
    <<" ", "a", "@", "b", ".", "c", "o", " ">>

\* "not provided"
EmailPlaceholder ==
    <<"n", "o", "t", " ", "p", "r", "o", "v", "i", "d", "e", "d">>

\* "not provided, a@b.co"
EmailMulti ==
    <<"n", "o", "t", " ", "p", "r", "o", "v", "i", "d", "e", "d", ",", " ",
      "a", "@", "b", ".", "c", "o">>

\* "****@b"
EmailMasked ==
    <<"*", "*", "*", "*", "@", "b">>

\* "212-867-5309"
PhoneOk ==
    <<"2", "1", "2", "-", "8", "6", "7", "-", "5", "3", "0", "9">>

\* "555-0123"
Phone555 ==
    <<"5", "5", "5", "-", "0", "1", "2", "3">>

\* "+1-202-555-0123"
Phone202 ==
    <<"+", "1", "-", "2", "0", "2", "-", "5", "5", "5", "-", "0", "1", "2",
      "3">>

\* "2125550123"
Phone555Run ==
    <<"2", "1", "2", "5", "5", "5", "0", "1", "2", "3">>

\* "1111111"
PhoneRepeated ==
    <<"1", "1", "1", "1", "1", "1", "1">>

\* "555-0123, 212-867-5309"
PhoneMulti ==
    <<"5", "5", "5", "-", "0", "1", "2", "3", ",", " ", "2", "1", "2", "-",
      "8", "6", "7", "-", "5", "3", "0", "9">>

\* "https://linkedin.com/in/al"
ProfileUrl ==
    <<"h", "t", "t", "p", "s", ":", "/", "/", "l", "i", "n", "k", "e", "d",
      "i", "n", ".", "c", "o", "m", "/", "i", "n", "/", "a", "l">>

\* " https://linkedin.com/in/al "
ProfilePadded ==
    <<" ", "h", "t", "t", "p", "s", ":", "/", "/", "l", "i", "n", "k", "e",
      "d", "i", "n", ".", "c", "o", "m", "/", "i", "n", "/", "a", "l", " ">>

\* "https://linkedin.com"
RootHttps ==
    <<"h", "t", "t", "p", "s", ":", "/", "/", "l", "i", "n", "k", "e", "d",
      "i", "n", ".", "c", "o", "m">>

\* "https://www.linkedin.com/"
RootHttpsWwwSlash ==
    <<"h", "t", "t", "p", "s", ":", "/", "/", "w", "w", "w", ".", "l", "i",
      "n", "k", "e", "d", "i", "n", ".", "c", "o", "m", "/">>

\* "http://www.linkedin.com"
RootHttpWww ==
    <<"h", "t", "t", "p", ":", "/", "/", "w", "w", "w", ".", "l", "i", "n",
      "k", "e", "d", "i", "n", ".", "c", "o", "m">>

\* "https://linkedin.com/authwall?x=1"
AuthwallUrl ==
    <<"h", "t", "t", "p", "s", ":", "/", "/", "l", "i", "n", "k", "e", "d",
      "i", "n", ".", "c", "o", "m", "/", "a", "u", "t", "h", "w", "a", "l",
      "l", "?", "x", "=", "1">>

\* "https://x.com/al"
OtherSiteUrl ==
    <<"h", "t", "t", "p", "s", ":", "/", "/", "x", ".", "c", "o", "m", "/",
      "a", "l">>

\* "linkedin.com/********************"
MaskedUrl ==
    <<"l", "i", "n", "k", "e", "d", "i", "n", ".", "c", "o", "m", "/", "*",
      "*", "*", "*", "*", "*", "*", "*", "*", "*", "*", "*", "*", "*", "*",
      "*", "*", "*", "*", "*">>

\* "ceo"
RoleOk ==
    <<"c", "e", "o">>

\* " Unknown "
RolePlaceholder ==
    <<" ", "U", "n", "k", "n", "o", "w", "n", " ">>

\* "****"
RoleMasked ==
    <<"*", "*", "*", "*">>

\* " acme "
CompanyPadded ==
    <<" ", "a", "c", "m", "e", " ">>

\* "acme"
CompanyOk ==
    <<"a", "c", "m", "e">>

DirtyRow(name, email, phone, url, role, company) ==
    [full_name |-> name, email |-> email, phone_number |-> phone,
     linkedin |-> url, role |-> role, company |-> company]

\* a row no cleaner changes
TidyRow == DirtyRow(<<"a", "l">>, EmailOk, PhoneOk, ProfileUrl, RoleOk, CompanyOk)

\* the rows of the input table: the tidy row, the empty row, and rows that
\* differ from the tidy row in the fields one cleaner looks at
DirtyRows ==
    { TidyRow,
      DirtyRow(<< >>, << >>, << >>, << >>, << >>, << >>),
      [TidyRow EXCEPT !.full_name = NameAlVerified],
      [TidyRow EXCEPT !.full_name = NameTwiceVerified],
      [TidyRow EXCEPT !.full_name = NameSpacedVerified] }
    \cup { [TidyRow EXCEPT !.email = e] :
              e \in {EmailPadded, EmailPlaceholder, EmailMulti, EmailMasked} }
    \cup { [TidyRow EXCEPT !.phone_number = p] :
              p \in {Phone555, Phone202, Phone555Run, PhoneRepeated, PhoneMulti} }
    \cup { [TidyRow EXCEPT !.linkedin = u] :
              u \in {ProfilePadded, RootHttps, RootHttpsWwwSlash, RootHttpWww,
                     AuthwallUrl, OtherSiteUrl, MaskedUrl} }
    \cup { [TidyRow EXCEPT !.role = RolePlaceholder, !.company = CompanyPadded],
           [TidyRow EXCEPT !.role = RoleMasked],
           [TidyRow EXCEPT !.company = RolePlaceholder] }

CleanStatKeys ==
    {"total", "cleaned_phones", "cleaned_emails", "cleaned_linkedin",
     "cleaned_names", "cleaned_roles"}

\* the variables a cleaning run does not use
CleanIdle ==
    /\ status = ""
    /\ suspect_rows = << >>
    /\ j = 0
    /\ response = SingleDefaults
    /\ result = empty
    /\ calls = << >>
    /\ start = 0
    /\ results = << >>
    /\ answers = << >>
    /\ env = RunningEnv

cleanIdleVars == <<status, suspect_rows, j, response, result, calls, start, results, answers>>

InitClean ==
    /\ \E n \in 0..MaxRows : rows \in [1..n -> DirtyRows]
    /\ rows_in = rows
    /\ pc = "cleaning"
    /\ i = 0
    /\ stats = [k \in CleanStatKeys |-> IF k = "total" THEN Len(rows) ELSE 0]
    /\ output = << >>
    /\ CleanIdle

\* the row after the six cleaners
CleanedRow(row) ==
    [full_name |-> clean_full_name(row.full_name),
     email |-> clean_email(row.email),
     phone_number |-> clean_phone(row.phone_number),
     linkedin |-> clean_linkedin(row.linkedin),
     role |-> clean_role(row.role),
     company |-> clean_company(row.company)]

Bump(changed) == IF changed THEN 1 ELSE 0

\* the counters after a row: one counter each for name, email, phone and
\* linkedin, and cleaned_roles for "role or company changed"
CountedRow(st, orig, row) ==
    [st EXCEPT
        !["cleaned_names"] = @ + Bump(row.full_name # orig.full_name),
        !["cleaned_emails"] = @ + Bump(row.email # orig.email),
        !["cleaned_phones"] = @ + Bump(row.phone_number # orig.phone_number),
        !["cleaned_linkedin"] = @ + Bump(row.linkedin # orig.linkedin),
        !["cleaned_roles"] = @ + Bump(row.role # orig.role \/ row.company # orig.company)]

\* one iteration of "for row in rows"
CleanStep ==
    /\ pc = "cleaning"
    /\ i < Len(rows)
    /\ rows' = [rows EXCEPT ![i + 1] = CleanedRow(rows[i + 1])]
    /\ stats' = CountedRow(stats, rows[i + 1], CleanedRow(rows[i + 1]))
    /\ i' = i + 1
    /\ UNCHANGED <<rows_in, pc, output, cleanIdleVars, env>>

\* the loop is exhausted: writer.writerows(rows)
WriteCleaned ==
    /\ pc = "cleaning"
    /\ i = Len(rows)
    /\ output' = rows
    /\ pc' = "done"
    /\ UNCHANGED <<rows, rows_in, i, stats, cleanIdleVars, env>>

NextClean == CleanStep \/ WriteCleaned

SpecClean == InitClean /\ [][NextClean]_vars

\* ------------------------------------------------------------------------
\* scrape_and_enrich_ig.py: enrich_follower, save_csv, main
\* ------------------------------------------------------------------------
\* what scrape_followers returns: followers with or without a full name and
\* no enrichment column yet (biography and external_url only feed the query)
FollowerPool ==
    { [username |-> "al", full_name |-> "Al", linkedin |-> Absent, email |-> Absent,
       phone_number |-> Absent, role |-> Absent, company |-> Absent],
      [username |-> "bo", full_name |-> "", linkedin |-> Absent, email |-> Absent,
       phone_number |-> Absent, role |-> Absent, company |-> Absent] }

\* the credential (os.environ.get("EXA_API_KEY")) and --skip-enrich
Envs == [EXA_API_KEY : BOOLEAN, skip_enrich : BOOLEAN]

FollowerDefaults ==
    [transport |-> "ok", body |-> "dict", answer |-> "absent", decoded |-> "none",
     linkedin |-> Absent, email |-> Absent, phone_number |-> Absent,
     role |-> Absent, company |-> Absent]

FollowerFound ==
    [FollowerDefaults EXCEPT !.linkedin = "li/al", !.email = "al@x",
                             !.phone_number = "", !.role = "ceo"]

\* What the answer service can do on one lookup
FollowerResponses ==
    { [FollowerDefaults EXCEPT !.transport = "error"],
      [FollowerDefaults EXCEPT !.transport = "http_error"],
      [FollowerDefaults EXCEPT !.body = "list"],
      FollowerDefaults,
      [FollowerDefaults EXCEPT !.answer = "list"],
      [FollowerFound EXCEPT !.answer = "dict"],
      [FollowerDefaults EXCEPT !.answer = "str", !.decoded = "bad"],
      [FollowerDefaults EXCEPT !.answer = "str", !.decoded = "list"],
      [FollowerFound EXCEPT !.answer = "str", !.decoded = "dict"] }

EMPTY_ENRICHMENT ==
    [raised |-> FALSE, linkedin |-> "", email |-> "", phone_number |-> "",
     role |-> "", company |-> ""]

\* enrich_follower(follower): the dict it returns, or raised = TRUE when an
\* exception leaves the function
enrich_follower(resp) ==
    IF resp.transport # "ok" THEN EMPTY_ENRICHMENT
    ELSE IF resp.body # "dict" THEN [EMPTY_ENRICHMENT EXCEPT !.raised = TRUE]
    ELSE IF resp.answer = "str" /\ resp.decoded = "bad" THEN EMPTY_ENRICHMENT
    ELSE LET shape == IF resp.answer = "str" THEN resp.decoded ELSE resp.answer
         IN  IF shape \in {"absent", "dict"}
             THEN [raised |-> FALSE,
                   linkedin |-> GetOr(resp.linkedin, ""),
                   email |-> GetOr(resp.email, ""),
                   phone_number |-> GetOr(resp.phone_number, ""),
                   role |-> GetOr(resp.role, ""),
                   company |-> GetOr(resp.company, "")]
             ELSE [EMPTY_ENRICHMENT EXCEPT !.raised = TRUE]

\* save_csv(followers, path): the file written, with "" for a missing column
save_csv(followers, path) ==
    [path |-> path,
     table |-> [k \in DOMAIN followers |->
                  [username |-> followers[k].username,
                   full_name |-> followers[k].full_name,
                   linkedin |-> Written(followers[k].linkedin),
                   email |-> Written(followers[k].email),
                   phone_number |-> Written(followers[k].phone_number),
                   role |-> Written(followers[k].role),
                   company |-> Written(followers[k].company)]]]

\* the variables a follower run does not use
FollowerIdle ==
    /\ status = ""
    /\ stats = [k \in StatKeys |-> 0]
    /\ suspect_rows = << >>
    /\ j = 0
    /\ start = 0
    /\ results = << >>
    /\ answers = << >>

followerIdleVars == <<status, stats, suspect_rows, j, start, results, answers>>

\* the state when scrape_followers has returned; output is the sequence of
\* files written
InitFollowers ==
    /\ \E n \in 0..MaxRows : rows \in [1..n -> FollowerPool]
    /\ rows_in = rows
    /\ env \in Envs
    /\ pc = "scraped"
    /\ i = 0
    /\ response = FollowerDefaults
    /\ result = EMPTY_ENRICHMENT
    /\ calls = << >>
    /\ output = << >>
    /\ FollowerIdle

\* "if not followers: return"
NoFollowers ==
    /\ pc = "scraped"
    /\ rows = << >>
    /\ pc' = "returned"
    /\ UNCHANGED <<rows, rows_in, i, response, result, calls, output, followerIdleVars, env>>

\* save_csv(followers, raw_path)
SaveRaw ==
    /\ pc = "scraped"
    /\ rows # << >>
    /\ output' = Append(output, save_csv(rows, "raw_path"))
    /\ pc' = "raw_saved"
    /\ UNCHANGED <<rows, rows_in, i, response, result, calls, followerIdleVars, env>>

\* "if args.skip_enrich": the followers are saved as scraped
SkipEnrich ==
    /\ pc = "raw_saved"
    /\ env.skip_enrich
    /\ output' = Append(output, save_csv(rows, "output_path"))
    /\ pc' = "done"
    /\ UNCHANGED <<rows, rows_in, i, response, result, calls, followerIdleVars, env>>

\* "if not EXA_API_KEY": a warning, the followers are saved as scraped
NoCredential ==
    /\ pc = "raw_saved"
    /\ ~env.skip_enrich
    /\ ~env.EXA_API_KEY
    /\ output' = Append(output, save_csv(rows, "output_path"))
    /\ pc' = "done"
    /\ UNCHANGED <<rows, rows_in, i, response, result, calls, followerIdleVars, env>>

\* one iteration of "for i, follower in enumerate(followers)":
\* enrich_follower and follower.update(result)
EnrichStep ==
    /\ pc = "raw_saved"
    /\ ~env.skip_enrich
    /\ env.EXA_API_KEY
    /\ i < Len(rows)
    /\ \E resp \in FollowerResponses :
         LET res == enrich_follower(resp)
         IN  /\ response' = resp
             /\ result' = res
             /\ calls' = Append(calls, i + 1)
             /\ IF res.raised
                THEN /\ pc' = "aborted"
                     /\ UNCHANGED <<rows, i>>
                ELSE /\ rows' = [rows EXCEPT ![i + 1] =
                                    [@ EXCEPT !.linkedin = res.linkedin,
                                              !.email = res.email,
                                              !.phone_number = res.phone_number,
                                              !.role = res.role,
                                              !.company = res.company]]
                     /\ i' = i + 1
                     /\ UNCHANGED pc
    /\ UNCHANGED <<rows_in, output, followerIdleVars, env>>

\* the loop is exhausted: save_csv(followers, output_path)
SaveEnriched ==
    /\ pc = "raw_saved"
    /\ ~env.skip_enrich
    /\ env.EXA_API_KEY
    /\ i = Len(rows)
    /\ output' = Append(output, save_csv(rows, "output_path"))
    /\ pc' = "done"
    /\ UNCHANGED <<rows, rows_in, i, response, result, calls, followerIdleVars, env>>

NextFollowers ==
    NoFollowers \/ SaveRaw \/ SkipEnrich \/ NoCredential \/ EnrichStep \/ SaveEnriched

SpecFollowers == InitFollowers /\ [][NextFollowers]_vars

\* ------------------------------------------------------------------------
\* Properties of a follower run
\* ------------------------------------------------------------------------
\* C21: a configuration error is fatal before any work: when enrichment is
\* wanted and the credential is absent, or when there is no input record,
\* no record is processed, no external call is made and no table is written.
C21_ConfigurationErrorIsFatal ==
    ((~env.skip_enrich /\ ~env.EXA_API_KEY) \/ rows_in = << >>) =>
        /\ rows = rows_in
        /\ calls = << >>
        /\ output = << >>
        /\ pc # "done"

\* ------------------------------------------------------------------------
\* Properties of a cleaning run
\* ------------------------------------------------------------------------
\* the fields the five field cleaners write
CleanedFields == {"email", "phone_number", "linkedin", "role", "company"}

CountedFields == CleanedFields \cup {"full_name"}

\* the rows the loop has cleaned so far
CleanedSoFar == 1..i

\* the field cleaner of a field
CleanerOf(f, value) ==
    CASE f = "email" -> clean_email(value)
      [] f = "phone_number" -> clean_phone(value)
      [] f = "linkedin" -> clean_linkedin(value)
      [] f = "role" -> clean_role(value)
      [] f = "company" -> clean_company(value)

\* C16: each field cleaner is idempotent: cleaning the value a cleaned row
\* holds (the cleaner's own output, for inputs with commas and surrounding
\* whitespace too) gives that value again.
C16_CleanersIdempotent ==
    \A k \in CleanedSoFar : \A f \in CleanedFields :
        CleanerOf(f, rows[k][f]) = rows[k][f]

\* a finished run in which a multi-valued email was reduced to one entry and
\* a value with surrounding whitespace was trimmed
C16_Witness ==
    /\ pc = "done"
    /\ \E k \in CleanedSoFar :
          Len(split(rows_in[k].email)) > 1 /\ rows[k].email # << >>
    /\ \E k \in CleanedSoFar : \E f \in CleanedFields :
          /\ rows[k][f] # << >>
          /\ rows[k][f] # rows_in[k][f]
          /\ rows[k][f] = strip(rows_in[k][f])

\* C17: after cleaning, every cleaned field value is empty or neither a
\* placeholder (is_junk) nor mostly masked (is_too_masked).
C17_CleanedIsEmptyOrUsable ==
    \A k \in CleanedSoFar : \A f \in CleanedFields :
        \/ rows[k][f] = << >>
        \/ ~is_junk(rows[k][f]) /\ ~is_too_masked(rows[k][f])

\* the sum of the per-field cleaned counters
CleanedTotal ==
    stats["cleaned_names"] + stats["cleaned_emails"] + stats["cleaned_phones"]
        + stats["cleaned_linkedin"] + stats["cleaned_roles"]

\* the (record, field) pairs whose value differs between input and output
ChangedPairs ==
    {pair \in (DOMAIN output) \X CountedFields :
        output[pair[1]][pair[2]] # rows_in[pair[1]][pair[2]]}

\* C18: when the run is done, the per-field cleaned counters add up to the
\* number of (record, field) pairs whose value differs between the input
\* and the output table, and a masked LinkedIn URL is empty in the output.
C18_CountersCountChangedFields ==
    pc = "done" =>
        /\ CleanedTotal = Cardinality(ChangedPairs)
        /\ \A k \in DOMAIN output :
              is_too_masked(rows_in[k].linkedin) => output[k].linkedin = << >>

\* a bare linkedin.com domain root: http or https, with or without www.
DomainRoots ==
    { <<"h", "t", "t", "p", "s", ":", "/", "/", "l", "i", "n", "k", "e", "d", "i", "n", ".", "c", "o", "m">>,
      <<"h", "t", "t", "p", ":", "/", "/", "l", "i", "n", "k", "e", "d", "i", "n", ".", "c", "o", "m">>,
      <<"h", "t", "t", "p", "s", ":", "/", "/", "w", "w", "w", ".", "l", "i", "n", "k", "e", "d", "i", "n", ".", "c", "o", "m">>,
      <<"h", "t", "t", "p", ":", "/", "/", "w", "w", "w", ".", "l", "i", "n", "k", "e", "d", "i", "n", ".", "c", "o", "m">> }

IsBareRoot(url) == rstrip_chars(strip(url), {"/"}) \in DomainRoots

\* C19: clean_linkedin gives the empty string for a bare domain root, a
\* value without "linkedin.com", a junk value and a value containing
\* "authwall", and the trimmed input for every other value.
C19_CleanLinkedinCases ==
    \A k \in CleanedSoFar :
        LET url == rows_in[k].linkedin
        IN  IF \/ IsBareRoot(url)
               \/ ~In(LinkedinCom, url)
               \/ is_junk(url)
               \/ In(<<"a", "u", "t", "h", "w", "a", "l", "l">>, url)
            THEN rows[k].linkedin = << >>
            ELSE rows[k].linkedin = strip(url)

\* the value contains "555" followed, optionally after one of '-', '.' or
\* space, by four digits
Contains555Group(p) ==
    \/ Search(<<{"5"}, {"5"}, {"5"}, DigitChars, DigitChars, DigitChars, DigitChars>>, p)
    \/ Search(<<{"5"}, {"5"}, {"5"}, Sep555, DigitChars, DigitChars, DigitChars,
                DigitChars>>, p)

\* C20: for every phone entry the cleaning run tests, is_fake_phone is true
\* exactly when the trimmed entry is in the denylist, or it contains "555"
\* followed (optionally after one separator) by a 4-digit group, or its
\* digits are at least 7 with at most 2 distinct values.
C20_FakePhoneExactly ==
    \A k \in CleanedSoFar :
        LET parts == stripped_parts(rows_in[k].phone_number)
        IN  \A n \in 1..Len(parts) :
                is_fake_phone(parts[n]) <=>
                    \/ strip(parts[n]) \in FAKE_PHONES
                    \/ Contains555Group(parts[n])
                    \/ /\ Len(digits_of(parts[n])) >= 7
                       /\ Cardinality(CharSet(digits_of(parts[n]))) <= 2

\* "Verified" ends the name and is not separated from it by a space
AttachedVerified(name) ==
    /\ endswith(name, Verified)
    /\ Len(name) > Len(Verified) => name[Len(name) - Len(Verified)] \notin Whitespace

\* C23: clean_full_name is idempotent (cleaning the name a cleaned row holds
\* gives that name again, also for a name ending in "Verified" twice), and
\* it changes a name only when "Verified" is attached without a space.
C23_NameCleanerIdempotent ==
    \A k \in CleanedSoFar :
        /\ clean_full_name(rows[k].full_name) = rows[k].full_name
        /\ rows[k].full_name # rows_in[k].full_name =>
              AttachedVerified(rows_in[k].full_name)

\* ------------------------------------------------------------------------
\* Properties of a single-record enrichment run
\* ------------------------------------------------------------------------
\* the lookup returned the empty default result: it failed or found nothing
EmptyResult == ~result.raised /\ result = empty

\* C14: whatever the shape of the answer (array, object, string decoding to
\* an array, an object, another value, or not decoding), the lookup returns
\* the decoded fields or the empty default result and never raises.
C14_LookupNeverRaises ==
    /\ pc # "aborted"
    /\ calls # << >> =>
          /\ ~result.raised
          /\ \/ result = empty
             \/ /\ result.phone_number = GetOr(response.phone_number, "")
                /\ result.phone_source = GetOr(response.phone_source, "")
                /\ result.personal_email = GetOr(response.personal_email, "")

\* C15: a record whose lookup failed or found nothing keeps the non-empty
\* phone_number, phone_source and personal_email it had in the input.
C15_FailedLookupKeepsValues ==
    (calls # << >> /\ EmptyResult) =>
        LET k == calls[Len(calls)]
            kept(now, before) == before \notin {Absent, ""} => now = before
        IN  /\ kept(rows[k].phone_number, rows_in[k].phone_number)
            /\ kept(rows[k].phone_source, rows_in[k].phone_source)
            /\ kept(rows[k].personal_email, rows_in[k].personal_email)

\* ------------------------------------------------------------------------
\* Properties of a batch enrichment run
\* ------------------------------------------------------------------------
\* the number of batches of a table of n rows
BatchCount(n) == (n + BATCH_SIZE - 1) \div BATCH_SIZE

\* C10: a batch enrichment run is never aborted by a lookup: when it ends,
\* every batch has been attempted in order and the output holds all input
\* records.
C10_RunNeverAborts ==
    /\ pc # "aborted"
    /\ pc = "done" =>
          /\ calls = [k \in 1..BatchCount(Len(rows_in)) |-> (k - 1) * BATCH_SIZE]
          /\ Len(output) = Len(rows_in)
          /\ \A k \in DOMAIN output : output[k].name = rows_in[k].name

\* the batch (1, 2, ...) row k belongs to
BatchOf(k) == ((k - 1) \div BATCH_SIZE) + 1

\* the batch of row k has been reconciled: its call returned and
\* match_results, if called, returned
Reconciled(k) == k <= Len(rows) /\ k <= start

\* result r carries a name that, trimmed and lower-cased, is non-empty and
\* equal to the trimmed, lower-cased name of the record
SameName(r, record) ==
    /\ r.kind = "dict"
    /\ r.name_kind = "str"
    /\ lower(strip(r.name)) # NoString
    /\ lower(strip(r.name)) = lower(strip(record.name))

\* the results of the answer to the batch of row k that name row k
Naming(k) ==
    {m \in DOMAIN answers[BatchOf(k)] : SameName(answers[BatchOf(k)][m], rows_in[k])}

\* row k holds the fields of result r
HoldsFieldsOf(k, r) ==
    /\ rows[k].linkedin = GetOr(r.linkedin, "")
    /\ rows[k].email = GetOr(r.email, "")
    /\ rows[k].role = GetOr(r.role, GetOr(rows_in[k].role, ""))
    /\ rows[k].additional_links = GetOr(r.additional_links, "")

\* value is what the input held, or the empty default of a column the input
\* did not have
KeptOrDefault(value, before) ==
    IF before = Absent THEN value \in {Absent, ""} ELSE value = before

\* row k holds no field of a result
Unpopulated(k) ==
    /\ KeptOrDefault(rows[k].linkedin, rows_in[k].linkedin)
    /\ KeptOrDefault(rows[k].email, rows_in[k].email)
    /\ KeptOrDefault(rows[k].additional_links, rows_in[k].additional_links)
    /\ rows[k].role = rows_in[k].role

\* C11: after a batch is reconciled, a record holds the fields of a returned
\* result if and only if its trimmed, lower-cased name is non-empty and equal
\* to the trimmed, lower-cased name of a result of that batch's answer.
C11_MatchByNormalisedName ==
    \A k \in DOMAIN rows :
        Reconciled(k) =>
            /\ Naming(k) # {} =>
                  \E m \in Naming(k) : HoldsFieldsOf(k, answers[BatchOf(k)][m])
            /\ Naming(k) = {} => Unpopulated(k)

\* a batch of 5 records of which exactly 3 are named by the answer and
\* populated, the other 2 are not
C11_Witness ==
    /\ start >= BATCH_SIZE
    /\ Len(rows) >= BATCH_SIZE
    /\ Cardinality({k \in 1..BATCH_SIZE : Naming(k) # {} /\ rows[k].linkedin = "li/al"}) = 3
    /\ Cardinality({k \in 1..BATCH_SIZE : Naming(k) = {} /\ Unpopulated(k)}) = 2

\* the row of the output table for an input row left as it was
WrittenUnchanged(record) ==
    [name |-> record.name,
     role |-> Written(record.role),
     linkedin |-> Written(record.linkedin),
     email |-> Written(record.email),
     additional_links |-> Written(record.additional_links)]

\* C12: a record no result of its batch's answer names (also when the call
\* failed or returned nothing) is written with every value it had in the
\* input and with the empty string in every enrichment column the input did
\* not have; in memory it keeps its values from the reconciliation on.
C12_UnmatchedKeepsValues ==
    /\ \A k \in DOMAIN rows :
          (Reconciled(k) /\ Naming(k) = {}) =>
              WrittenUnchanged(rows[k]) = WrittenUnchanged(rows_in[k])
    /\ pc = "done" =>
          /\ Len(output) = Len(rows_in)
          /\ \A k \in DOMAIN output :
                Naming(k) = {} => output[k] = WrittenUnchanged(rows_in[k])

\* an unnamed record written with the email it had and an empty linkedin, in
\* a batch with results, and a record of a batch whose call gave no results
C12_Witness ==
    /\ pc = "done"
    /\ \E k \in DOMAIN output :
          /\ answers[BatchOf(k)] # << >>
          /\ Naming(k) = {}
          /\ output[k].email = "old@x"
          /\ output[k].linkedin = ""
    /\ \E k \in DOMAIN output :
          /\ answers[BatchOf(k)] = << >>
          /\ output[k].additional_links = ""

\* C13: the calls are made for contiguous batches in input order, each of
\* BATCH_SIZE records except a last one of 1 to BATCH_SIZE, every record in
\* exactly one batch; when the run has ended, exactly ceil(n / BATCH_SIZE)
\* calls have been made for n records.
C13_PartitionAndCallCount ==
    /\ \A c \in DOMAIN calls :
          /\ calls[c] = (c - 1) * BATCH_SIZE
          /\ Len(Batch(rows, calls[c])) \in 1..BATCH_SIZE
          /\ c < BatchCount(Len(rows)) => Len(Batch(rows, calls[c])) = BATCH_SIZE
    /\ \A k \in DOMAIN rows :
          Cardinality({b \in 1..BatchCount(Len(rows)) :
                          /\ k > (b - 1) * BATCH_SIZE
                          /\ k <= (b - 1) * BATCH_SIZE
                                    + Len(Batch(rows, (b - 1) * BATCH_SIZE))}) = 1
    /\ pc \in {"done", "aborted"} => Len(calls) = BatchCount(Len(rows_in))

\* C26: reconciliation is confined to the batch queried: a step for the
\* batch at start changes no record before start or after start +
\* BATCH_SIZE, so a result naming a record of another batch leaves that
\* record alone and a processed batch is never modified again.
C26_ConfinedToBatch ==
    [][\A k \in DOMAIN rows :
          (k <= start \/ k > start + BATCH_SIZE) => rows'[k] = rows[k]]_vars

\* the first batch is reconciled and populated by a result whose name is
\* also the name of the untouched first record of the second batch
C26_Witness ==
    /\ start = BATCH_SIZE
    /\ Len(rows) > BATCH_SIZE
    /\ rows[1].linkedin = "li/al"
    /\ \E m \in DOMAIN answers[1] : SameName(answers[1][m], rows_in[BATCH_SIZE + 1])
    /\ rows[BATCH_SIZE + 1] = rows_in[BATCH_SIZE + 1]

\* ------------------------------------------------------------------------
\* Properties of validation run on a phone enrichment output
\* ------------------------------------------------------------------------
\* the validator is running on the enriched table
Validating == pc \in {"phase1", "phase2", "write", "done"}

\* the status heuristic_check gives row r for the source attribution the
\* phone enrichment stored on it
StatusForStoredSource(r) ==
    heuristic_check(strip(rows_in[r].phone_number), strip(rows_in[r].source))

\* C24: the validator examines the source attribution the phone enrichment
\* stored: a record whose phone passes the format rules and whose stored
\* source matches an institutional pattern is classified suspect.
C24_StoredSourceExamined ==
    Validating =>
        \A r \in 1..i :
            StatusForStoredSource(r) = "suspect" =>
                \E k \in DOMAIN suspect_rows : suspect_rows[k] = r

\* ------------------------------------------------------------------------
\* Properties of a validation run
\* ------------------------------------------------------------------------
FinalStatuses == {"empty", "ok", "partial", "removed", "verified", "rejected", "unverified"}

\* the row the answer service was called for last
LastCalled == calls[Len(calls)]

\* the heuristic status of each row the input table can hold
StatusOfInput ==
    [row \in InputRows |->
        heuristic_check(strip(row.phone_number), strip(row.phone_source))]

\* the heuristic status of input row r
InputStatus(r) == StatusOfInput[rows_in[r]]

\* the last response carried an explicit boolean is_valid
ExplicitAnswer(resp) ==
    /\ resp.transport = "ok"
    /\ resp.body = "dict"
    /\ resp.answer = "dict" \/ (resp.answer = "str" /\ resp.decoded = "dict")
    /\ resp.is_valid \in {"true", "false"}

\* C1: when the run has written its output, every record's phone_status is
\* one of empty, ok, partial, removed, verified, rejected, unverified; none
\* is left suspect, fake or invalid.
C1_FinalStatusDefined ==
    pc = "done" =>
        /\ Len(output) = Len(rows_in)
        /\ \A r \in DOMAIN output : output[r].phone_status \in FinalStatuses

C1_Witness ==
    /\ pc = "done"
    /\ \E r \in DOMAIN output : output[r].phone_status = "unverified"
    /\ \E r \in DOMAIN output : output[r].phone_status = "removed"

\* C2: after a verification result of explicit false with a non-empty
\* corrected number, the record is rejected, verified_phone is the corrected
\* number and phone_number is replaced by the corrected number.
C2_RejectedReplacesPhone ==
    (/\ calls # << >>
     /\ ~result.raised
     /\ result.is_valid = "False"
     /\ result.corrected_phone # NoString)
    => /\ rows[LastCalled].phone_status = "rejected"
       /\ rows[LastCalled].verified_phone = result.corrected_phone
       /\ rows[LastCalled].phone_number = result.corrected_phone

\* C3: the status heuristic_check gives a phone is that of the first rule
\* that applies, in the order blank, masking run, 555 pattern, digit count,
\* placeholder sequence, institutional source, ok.
C3_Precedence ==
    (pc = "phase1" /\ i > 0) =>
        LET phone == strip(rows_in[i].phone_number)
            source == strip(rows_in[i].phone_source)
            blank == \A k \in DOMAIN phone : phone[k] \in Whitespace
            masked == HasMaskRun(phone)
            tripleFive == Has555(phone)
            ndigits == Cardinality({k \in DOMAIN phone : phone[k] \in DigitChars})
            badLength == ndigits < 7 \/ ndigits > 15
            placeholder == Has1234567(phone) \/ HasZeros(phone)
            institutional == IsCompanyPage(source)
        IN  /\ (status = "empty") <=> blank
            /\ (status = "partial") <=> (~blank /\ masked)
            /\ (status = "invalid") <=> (~blank /\ ~masked /\ ~tripleFive /\ badLength)
            /\ (status = "fake") <=>
                  (/\ ~blank
                   /\ ~masked
                   /\ tripleFive \/ (~badLength /\ placeholder))
            /\ (status = "suspect") <=>
                  (/\ ~blank
                   /\ ~masked
                   /\ ~tripleFive
                   /\ ~badLength
                   /\ ~placeholder
                   /\ institutional)
            /\ status \in {"empty", "partial", "invalid", "fake", "suspect", "ok"}

\* a masked phone that also matches the 555 rule, from an institutional source
C3_Witness ==
    /\ pc = "phase1"
    /\ i > 0
    /\ HasMaskRun(rows_in[i].phone_number)
    /\ Has555(rows_in[i].phone_number)
    /\ IsCompanyPage(rows_in[i].phone_source)
    /\ status = "partial"

\* C4: the phone "123-456-7890" gets heuristic status fake and ends the run
\* removed with an empty phone_number, whatever its source.
C4_Placeholder123Removed ==
    /\ (pc = "phase1" /\ i > 0 /\ strip(rows_in[i].phone_number) = Phone123)
          => status = "fake"
    /\ pc = "done" =>
          \A r \in DOMAIN output :
              strip(rows_in[r].phone_number) = Phone123 =>
                  /\ output[r].phone_status = "removed"
                  /\ output[r].phone_number = NoString

\* C5: a record the heuristics classify fake or invalid is removed with an
\* empty phone_number from its phase 1 step to the end of the run; a removed
\* record always has an empty phone_number, and so has a record rejected
\* without a corrected number.
C5_RemovedIsCleared ==
    /\ \A r \in DOMAIN rows :
          (r <= i /\ InputStatus(r) \in {"fake", "invalid"}) =>
              /\ rows[r].phone_status = "removed"
              /\ rows[r].phone_number = NoString
    /\ \A r \in DOMAIN rows :
          rows[r].phone_status = "removed" => rows[r].phone_number = NoString
    /\ \A r \in DOMAIN rows :
          (rows[r].phone_status = "rejected" /\ rows[r].verified_phone = NoString)
              => rows[r].phone_number = NoString
    /\ pc = "done" => (i = Len(rows) /\ output = rows)

C5_Witness ==
    /\ pc = "done"
    /\ \E r \in DOMAIN output :
          /\ InputStatus(r) = "invalid"
          /\ output[r].phone_status = "removed"
    /\ \E r \in DOMAIN output :
          /\ output[r].phone_status = "rejected"
          /\ output[r].verified_phone = NoString

\* C6: a record whose final status is empty, ok, partial, verified or
\* unverified is written with the phone_number that was read for it.
C6_PhoneKept ==
    pc = "done" =>
        \A r \in DOMAIN output :
            output[r].phone_status \in {"empty", "ok", "partial", "verified", "unverified"}
                => output[r].phone_number = rows_in[r].phone_number

\* a verified phone written with the leading blank it was read with
C6_Witness ==
    /\ pc = "done"
    /\ \E r \in DOMAIN output :
          /\ output[r].phone_status = "verified"
          /\ output[r].phone_number = Phone305
    /\ \E r \in DOMAIN output :
          /\ output[r].phone_status = "partial"
          /\ output[r].phone_number # NoString

\* C7: when the run has ended, the answer service has been called exactly
\* once for each record the heuristics classified suspect and never for any
\* other record.
C7_OneCallPerSuspect ==
    pc \in {"done", "aborted"} =>
        \A r \in DOMAIN rows :
            Cardinality({k \in DOMAIN calls : calls[k] = r})
                = IF InputStatus(r) = "suspect" THEN 1 ELSE 0

\* C8: a verification outcome that is not an explicit true or false leaves
\* the record unverified, and the run goes on.
C8_IndeterminateIsUnverified ==
    (calls # << >> /\ ~ExplicitAnswer(response)) =>
        /\ rows[LastCalled].phone_status = "unverified"
        /\ pc # "aborted"

\* C9: once a record is verified, rejected or removed, no step of the run
\* changes its phone_status or its phone_number.
C9_TerminalStatusFrozen ==
    [][\A r \in DOMAIN rows :
          rows[r].phone_status \in {"verified", "rejected", "removed"} =>
              /\ rows'[r].phone_status = rows[r].phone_status
              /\ rows'[r].phone_number = rows[r].phone_number]_vars

\* a later suspect record has been handled after an earlier one was rejected,
\* next to a record removed in phase 1
C9_Witness ==
    /\ j >= 1
    /\ \E r \in DOMAIN rows : rows[r].phone_status = "removed"
    /\ \E r \in DOMAIN rows : rows[r].phone_status \in {"verified", "rejected"}

\* phase 1 queued record r as suspect
Queued(r) == \E k \in DOMAIN suspect_rows : suspect_rows[k] = r

\* C22: validation is two-phase: a step that issues a verification query is
\* taken only when the heuristic check has been applied to every record,
\* and no step after phase 1 changes the status of a record phase 1 did not
\* queue as suspect.
C22_TwoPhase ==
    [][/\ calls' # calls => (i = Len(rows) /\ pc = "phase2")
       /\ pc # "phase1" =>
             \A r \in DOMAIN rows :
                 ~Queued(r) => rows'[r].phone_status = rows[r].phone_status]_vars

\* a finished run with a verification call and a record that kept the
\* status ok, partial or empty of phase 1
C22_Witness ==
    /\ pc = "done"
    /\ calls # << >>
    /\ \E r \in DOMAIN output :
          /\ InputStatus(r) # "suspect"
          /\ output[r].phone_status = InputStatus(r)

\* C25 as stated: in every state, every record with a non-empty
\* verified_phone has phone_status rejected.
C25_VerifiedPhoneImpliesRejected ==
    \A r \in DOMAIN rows :
        rows[r].verified_phone # NoString => rows[r].phone_status = "rejected"

\* C25 amended: in every state, every record phase 1 has handled that has a
\* non-empty verified_phone has phone_status rejected and was given that
\* number by a verification call; so has every record of the output.
C25_HandledVerifiedPhoneImpliesRejected ==
    /\ \A r \in 1..i :
          rows[r].verified_phone # NoString =>
              /\ rows[r].phone_status = "rejected"
              /\ \E k \in DOMAIN calls : calls[k] = r
    /\ pc = "done" =>
          \A r \in DOMAIN output :
              output[r].verified_phone # NoString => output[r].phone_status = "rejected"

\* a record read with a verified_phone has lost it and was then verified,
\* next to a record rejected with a corrected number
C25_Witness ==
    /\ \E r \in 1..i :
          /\ rows_in[r].verified_phone # NoString
          /\ rows[r].verified_phone = NoString
          /\ rows[r].phone_status = "verified"
    /\ \E r \in 1..i :
          /\ rows[r].verified_phone # NoString
          /\ rows[r].phone_status = "rejected"

\* the records read with a non-blank phone_number and written with an empty
\* one
RemovedRecords ==
    {r \in DOMAIN output :
        /\ strip(rows_in[r].phone_number) # NoString
        /\ strip(output[r].phone_number) = NoString}

\* the records rejected with a corrected number: their phone_number is
\* written as read
RejectedWithCorrection ==
    {r \in DOMAIN output :
        output[r].phone_status = "rejected" /\ output[r].verified_phone # NoString}

\* C27 as stated: when the summary is printed, its "Removed (bad data)"
\* count equals the number of records read with a non-blank phone_number
\* and written with an empty one.
C27_RemovedCountMatchesOutput ==
    pc = "done" => RemovedBadData = Cardinality(RemovedRecords)

\* C27 amended: when the summary is printed, its "Removed (bad data)" count
\* equals the number of records written with phone_status removed or
\* rejected, which is the number of records whose phone_number was emptied
\* plus the number of records rejected with a corrected number.
C27_RemovedCountMatchesStatuses ==
    pc = "done" =>
        /\ RemovedBadData =
              Cardinality({r \in DOMAIN output :
                              output[r].phone_status \in {"removed", "rejected"}})
        /\ RemovedBadData =
              Cardinality(RemovedRecords) + Cardinality(RejectedWithCorrection)

\* a summary that counts a fake number removed in phase 1 and a number
\* rejected with a correction
C27_Witness ==
    /\ pc = "done"
    /\ stats["fake"] = 1
    /\ RejectedWithCorrection # {}
    /\ RemovedBadData = 2
    /\ Cardinality(RemovedRecords) = 1

====
